---- MODULE Spec2Model ----
(***************************************************************************)
(* A model of the path parsing engine of pathlib.cc (LinuxPathStringParse, *)
(* Win32PathStringParse and the two component splitters) together with the *)
(* string helpers of strlib.cc that it calls.                              *)
(*                                                                         *)
(* Memory is a sequence of bytes (integers 0..255).  A pointer is an       *)
(* address: the caller's buffer starts at address BufAddr, NULL is 0.      *)
(* The caller's buffer holds the path text, its nul terminator and one     *)
(* more byte: Utf8StringInfo places BufferEnd one past the terminator and  *)
(* the backward extension scan reads the byte stored there.  That byte is  *)
(* not part of the string, so its value is chosen nondeterministically.    *)
(*                                                                         *)
(* Two more callers are modelled, each with a specification of its own:    *)
(* one of the byte order marker functions of strlib.cc (SpecBom) and one   *)
(* of Base64Encode (SpecBase64).  SpecInvalid is the caller of the path    *)
(* parsers with a buffer that holds an invalid codepoint.                  *)
(***************************************************************************)
EXTENDS Integers, Sequences, FiniteSets, TLC

-----------------------------------------------------------------------------
(* Bounds of the model.                                                    *)

\* Longest free tail (in characters) appended to a prefix to form an input.
MaxTail == 3

\* Address at which the caller's buffer is placed.
BufAddr == 1

-----------------------------------------------------------------------------
(* Character literals used by the source.                                  *)

NUL       == 0
Dot       == 46
Slash     == 47
Colon     == 58
Question  == 63
UpperA    == 65
UpperZ    == 90
Backslash == 92
LowerA    == 97
LowerZ    == 122

NULL   == 0
EINVAL == 22

\* (size_t) -1, the value mbstowcs reports for an invalid sequence.
SIZE_MAX == 2147483647

-----------------------------------------------------------------------------
(* PATH_FLAGS.  PathFlags is modelled as the set of the bits that are set; *)
(* PATH_FLAGS_NONE is the empty set, | is \cup and & ~ is set difference.  *)

PATH_FLAGS_NONE     == {}
PATH_FLAG_INVALID   == "INVALID"
PATH_FLAG_ABSOLUTE  == "ABSOLUTE"
PATH_FLAG_RELATIVE  == "RELATIVE"
PATH_FLAG_NETWORK   == "NETWORK"
PATH_FLAG_DEVICE    == "DEVICE"
PATH_FLAG_LONG      == "LONG"
PATH_FLAG_ROOT      == "ROOT"
PATH_FLAG_DIRECTORY == "DIRECTORY"
PATH_FLAG_FILENAME  == "FILENAME"
PATH_FLAG_EXTENSION == "EXTENSION"

-----------------------------------------------------------------------------
(* Memory access.                                                          *)

\* p[0] for a pointer p into the caller's buffer.
Byte(m, p) == m[p - BufAddr + 1]

\* Poke with the store landing one byte too far.
Poke_OneTooFar(m, p, b) == [m EXCEPT ![p - BufAddr + 2] = b]

\* p[0] = b.
Poke(m, p, b) == [m EXCEPT ![p - BufAddr + 1] = b]

\* Is address p inside the bytes the caller's buffer is known to hold?
InBuffer(m, p) == p >= BufAddr /\ p < BufAddr + Len(m)

\* strlen(strbuf): the number of bytes before the first nul.
RECURSIVE strlen_from(_, _)
strlen_from(m, p) ==
    IF Byte(m, p) = NUL THEN 0 ELSE 1 + strlen_from(m, p + 1)

strlen(m, strbuf) == strlen_from(m, strbuf)

IsLetter(c) == (c >= UpperA /\ c <= UpperZ) \/ (c >= LowerA /\ c <= LowerZ)

-----------------------------------------------------------------------------
(* strlib.cc                                                               *)

\* Utf8StringNextCodepoint(NULL, NULL, bufitr): the start of the next
\* codepoint, or NULL for a NULL cursor or an invalid codepoint.
Utf8StringNextCodepoint(m, bufitr) ==
    IF bufitr = NULL THEN NULL
    ELSE LET b0 == Byte(m, bufitr) IN
         IF b0 < 128 THEN bufitr + 1
         ELSE IF b0 >= 194 /\ b0 <= 223
                 /\ InBuffer(m, bufitr + 1)
                 /\ Byte(m, bufitr + 1) >= 128 /\ Byte(m, bufitr + 1) < 192
              THEN bufitr + 2
         ELSE NULL

\* Utf8StringPrevCodepoint(NULL, NULL, bufitr): the start of the codepoint
\* immediately preceding bufitr, or NULL.  A step back from the first byte
\* of the buffer reads memory in front of the buffer; whatever is there, the
\* result is NULL or an address below the buffer, and both compare below
\* every pointer into the buffer: it is modelled as NULL.
Utf8StringPrevCodepoint(m, bufitr) ==
    IF bufitr = NULL THEN NULL
    ELSE IF ~InBuffer(m, bufitr - 1) THEN NULL
    ELSE LET b1 == Byte(m, bufitr - 1) IN
         IF b1 < 128 THEN bufitr - 1
         ELSE IF b1 < 192 /\ InBuffer(m, bufitr - 2)
                 /\ Byte(m, bufitr - 2) >= 194 /\ Byte(m, bufitr - 2) <= 223
              THEN bufitr - 2
         ELSE NULL

\* mbstowcs(NULL, strbuf, 0): the number of characters before the nul, or
\* (size_t) -1 when the bytes are no valid multibyte sequence.
RECURSIVE mbstowcs(_, _)
mbstowcs(m, p) ==
    IF Byte(m, p) = NUL THEN 0
    ELSE LET q == Utf8StringNextCodepoint(m, p) IN
         IF q = NULL THEN SIZE_MAX
         ELSE LET rest == mbstowcs(m, q) IN
              IF rest = SIZE_MAX THEN SIZE_MAX ELSE 1 + rest

\* STRING_INFO with every field zero (memset).
ZeroInfo == [Buffer |-> NULL, BufferEnd |-> NULL, LengthBytes |-> 0, LengthChars |-> 0]

\* Utf8StringInfo(o_strinfo, strbuf).
Utf8StringInfo(m, strbuf) ==
    LET len_bytes == IF strbuf # NULL THEN strlen(m, strbuf) + 1 ELSE 0
        len_chars == IF strbuf # NULL THEN mbstowcs(m, strbuf) ELSE 0
    IN [Buffer      |-> strbuf,
        BufferEnd   |-> strbuf + len_bytes,
        LengthBytes |-> len_bytes,
        LengthChars |-> len_chars]

-----------------------------------------------------------------------------
(* pathlib.cc: the component splitters.                                    *)

\* PATH_PARTS_LINUX / PATH_PARTS_WIN32 with every field zero (memset).
ZeroParts ==
    [Root      |-> NULL, RootEnd      |-> NULL,
     Path      |-> NULL, PathEnd      |-> NULL,
     Filename  |-> NULL, FilenameEnd  |-> NULL,
     Extension |-> NULL, ExtensionEnd |-> NULL,
     PathFlags |-> PATH_FLAGS_NONE]

\* The forward loop  while (name_end < path_end) { ... }  of both splitters;
\* sep is the separator of the style and alt the one normalized to it.
\* s = [mem, dirs_end, name_beg, name_end, flags, fault, seen]; fault
\* records that the loop dereferenced a NULL name_end, and seen lists the
\* value of name_end at each execution of the loop body.
RECURSIVE SegmentationPass(_, _, _, _)
SegmentationPass(sep, alt, path_end, s) ==
    IF ~(s.name_end < path_end) THEN s
    ELSE IF s.name_end = NULL THEN [s EXCEPT !.fault = TRUE]
    ELSE LET m1 == IF Byte(s.mem, s.name_end) = alt
                   THEN Poke(s.mem, s.name_end, sep)
                   ELSE s.mem
         IN IF Byte(m1, s.name_end) # sep
            THEN SegmentationPass(sep, alt, path_end,
                     [s EXCEPT !.mem      = m1,
                               !.seen     = Append(s.seen, s.name_end),
                               !.name_end = Utf8StringNextCodepoint(m1, s.name_end)])
            ELSE SegmentationPass(sep, alt, path_end,
                     [s EXCEPT !.mem      = m1,
                               !.seen     = Append(s.seen, s.name_end),
                               !.dirs_end = s.name_end,
                               !.name_beg = s.name_end + 1,
                               !.name_end = s.name_end + 1,
                               !.flags    = s.flags \cup {PATH_FLAG_DIRECTORY}])

\* RecordSplit without the test  iter != name_beg : a leading dot splits too.
RecordSplit_AtAnyDot(s, name_beg, c) ==
    IF c = Dot
    THEN [s EXCEPT !.name_end = s.iter,
                   !.extn_beg = s.iter + 1,
                   !.flags    = {PATH_FLAG_FILENAME, PATH_FLAG_EXTENSION} \cup s.flags]
    ELSE s

\* The body of  if (*iter == '.' && iter != name_beg) { ... }  in the
\* backward loop: the split point recorded for a qualifying dot.
RecordSplit(s, name_beg, c) ==
    IF c = Dot /\ s.iter # name_beg
    THEN [s EXCEPT !.name_end = s.iter,
                   !.extn_beg = s.iter + 1,
                   !.flags    = {PATH_FLAG_FILENAME, PATH_FLAG_EXTENSION} \cup s.flags]
    ELSE s

\* The backward loop  while (iter >= name_beg) { ... }  of both splitters.
\* s = [iter, name_end, extn_beg, flags, seen].  The loop has no break: it
\* runs down to name_beg, so a later (more leftward) dot overwrites the
\* split.  seen lists the value of iter at each execution of the loop body.
RECURSIVE ExtensionScan(_, _, _)
ExtensionScan(m, name_beg, s) ==
    IF ~(s.iter >= name_beg) THEN s
    ELSE LET s1 == RecordSplit(s, name_beg, Byte(m, s.iter))
         IN ExtensionScan(m, name_beg,
                [s1 EXCEPT !.seen = Append(s.seen, s.iter),
                           !.iter = Utf8StringPrevCodepoint(m, s.iter)])

\* SkipLeadingSeparator without the test  dirs_beg[0] == sep : the first
\* character after the root is skipped whatever it is.
SkipLeadingSeparator_Always(sep, m, d) ==
    IF d.dirs_beg = d.dirs_end
    THEN [dirs_beg |-> d.dirs_beg + 1,
          dirs_end |-> d.dirs_end + 1,
          flags    |-> d.flags \ {PATH_FLAG_DIRECTORY}]
    ELSE [d EXCEPT !.dirs_beg = d.dirs_beg + 1]

\* The leading-separator adjustment  if (dirs_beg[0] == sep) { ... }.
\* d = [dirs_beg, dirs_end, flags].
SkipLeadingSeparator(sep, m, d) ==
    IF Byte(m, d.dirs_beg) = sep
    THEN IF d.dirs_beg = d.dirs_end
         THEN [dirs_beg |-> d.dirs_beg + 1,
               dirs_end |-> d.dirs_end + 1,
               flags    |-> d.flags \ {PATH_FLAG_DIRECTORY}]
         ELSE [d EXCEPT !.dirs_beg = d.dirs_beg + 1]
    ELSE d

\* The body shared by LinuxPathExtractPathParts and
\* Win32PathExtractPathParts, which differ in the separator only.
\* Result: [fault, mem, parts, fwd, bwd]; fwd and bwd list the positions
\* at which the bodies of the forward and of the backward loop ran.
ExtractPathParts(sep, alt, o_parts, strinfo, m) ==
    LET path_end == strinfo.BufferEnd
        fwd == SegmentationPass(sep, alt, path_end,
                   [mem      |-> m,
                    dirs_end |-> o_parts.RootEnd,
                    name_beg |-> o_parts.RootEnd,
                    name_end |-> o_parts.RootEnd,
                    flags    |-> o_parts.PathFlags,
                    fault    |-> FALSE,
                    seen     |-> << >>])
        d   == SkipLeadingSeparator(sep, fwd.mem,
                   [dirs_beg |-> o_parts.RootEnd,
                    dirs_end |-> fwd.dirs_end,
                    flags    |-> fwd.flags])
        bwd == ExtensionScan(fwd.mem, fwd.name_beg,
                   [iter     |-> path_end,
                    name_end |-> fwd.name_end,
                    extn_beg |-> path_end,
                    flags    |-> d.flags,
                    seen     |-> << >>])
        fin == IF fwd.name_beg # fwd.name_end
               THEN IF PATH_FLAG_FILENAME \notin bwd.flags
                    THEN [dirs_end |-> bwd.name_end,
                          flags    |-> bwd.flags \cup {PATH_FLAG_DIRECTORY},
                          name_beg |-> path_end,
                          name_end |-> path_end,
                          extn_beg |-> bwd.extn_beg]
                    ELSE [dirs_end |-> d.dirs_end,
                          flags    |-> bwd.flags,
                          name_beg |-> fwd.name_beg,
                          name_end |-> bwd.name_end,
                          extn_beg |-> bwd.extn_beg]
               ELSE [dirs_end |-> d.dirs_end,
                     flags    |-> d.flags,
                     name_beg |-> path_end,
                     name_end |-> path_end,
                     extn_beg |-> path_end]
    IN IF fwd.fault
       THEN [fault |-> TRUE, mem |-> fwd.mem, parts |-> o_parts,
             fwd |-> fwd.seen, bwd |-> << >>]
       ELSE [fault |-> FALSE,
             fwd   |-> fwd.seen,
             bwd   |-> IF fwd.name_beg # fwd.name_end THEN bwd.seen ELSE << >>,
             mem   |-> fwd.mem,
             parts |-> [o_parts EXCEPT
                          !.Path         = d.dirs_beg,
                          !.PathEnd      = fin.dirs_end,
                          !.Filename     = fin.name_beg,
                          !.FilenameEnd  = fin.name_end,
                          !.Extension    = fin.extn_beg,
                          !.ExtensionEnd = path_end,
                          !.PathFlags    = fin.flags]]

LinuxPathExtractPathParts(o_parts, strinfo, m) ==
    ExtractPathParts(Slash, Backslash, o_parts, strinfo, m)

Win32PathExtractPathParts(o_parts, strinfo, m) ==
    ExtractPathParts(Backslash, Slash, o_parts, strinfo, m)

-----------------------------------------------------------------------------
(* pathlib.cc: the entry points.                                           *)
(*                                                                         *)
(* o_parts and o_strinfo are TRUE when the caller passes a non-null        *)
(* pointer; strinfo is << >> for a null hint and <<h>> for the hint h.     *)
(* st = [mem, parts, info, errno] is the caller's memory: the buffer, the  *)
(* PATH_PARTS and STRING_INFO the output pointers refer to, and errno.     *)
(* The result adds ret, the value returned, fault, and seen: the positions *)
(* at which the loop bodies of the call ran.                               *)

\* A call that runs none of the three loops.
NoScan == [root |-> << >>, fwd |-> << >>, bwd |-> << >>]

\* NullPartsExit that marks the caller's parts invalid all the same.
NullPartsExit_WritesParts(o_strinfo, st) ==
    [ret   |-> -1,
     fault |-> FALSE,
     seen  |-> NoScan,
     mem   |-> st.mem,
     parts |-> [st.parts EXCEPT !.PathFlags = {PATH_FLAG_INVALID}],
     info  |-> IF o_strinfo THEN ZeroInfo ELSE st.info,
     errno |-> EINVAL]

\* if (o_parts == NULL) { ... return -1; }
NullPartsExit(o_strinfo, st) ==
    [ret   |-> -1,
     fault |-> FALSE,
     seen  |-> NoScan,
     mem   |-> st.mem,
     parts |-> st.parts,
     info  |-> IF o_strinfo THEN ZeroInfo ELSE st.info,
     errno |-> EINVAL]

\* if (strbuf != NULL) { ... } else { memset; PATH_FLAG_INVALID; return -1; }
NullBufferExit(o_strinfo, st) ==
    [ret   |-> -1,
     fault |-> FALSE,
     seen  |-> NoScan,
     mem   |-> st.mem,
     parts |-> [ZeroParts EXCEPT !.PathFlags = {PATH_FLAG_INVALID}],
     info  |-> IF o_strinfo THEN ZeroInfo ELSE st.info,
     errno |-> EINVAL]

\* sinfo = *strinfo, or Utf8StringInfo(&sinfo, strbuf).
DescribeInput(strinfo, strbuf, m) ==
    IF strinfo # << >> THEN strinfo[1] ELSE Utf8StringInfo(m, strbuf)

\* o_parts->Root = path_beg; o_parts->RootEnd = path_end; ... PATH_FLAGS_NONE
InitialParts(sinfo) ==
    [Root      |-> sinfo.Buffer,    RootEnd      |-> sinfo.BufferEnd,
     Path      |-> sinfo.BufferEnd, PathEnd      |-> sinfo.BufferEnd,
     Filename  |-> sinfo.BufferEnd, FilenameEnd  |-> sinfo.BufferEnd,
     Extension |-> sinfo.BufferEnd, ExtensionEnd |-> sinfo.BufferEnd,
     PathFlags |-> PATH_FLAGS_NONE]

\* The result of a call that ends in  return XxxPathExtractPathParts(...).
SplitterExit(x, o_strinfo, sinfo, st) ==
    [ret   |-> 0,
     fault |-> x.fault,
     seen  |-> [root |-> << >>, fwd |-> x.fwd, bwd |-> x.bwd],
     mem   |-> x.mem,
     parts |-> x.parts,
     info  |-> IF o_strinfo THEN sinfo ELSE st.info,
     errno |-> st.errno]

\* The result of a call that ends in  return 0  with o_parts as given.
DirectExit(parts, m, o_strinfo, sinfo, st) ==
    [ret   |-> 0,
     fault |-> FALSE,
     seen  |-> NoScan,
     mem   |-> m,
     parts |-> parts,
     info  |-> IF o_strinfo THEN sinfo ELSE st.info,
     errno |-> st.errno]

\* LinuxRoot that takes either separator for the root.
LinuxRoot_EitherSeparator(parts, path_beg, m) ==
    IF Byte(m, path_beg) = Slash \/ Byte(m, path_beg) = Backslash
    THEN [parts EXCEPT !.Root      = path_beg,
                       !.RootEnd   = path_beg + 1,
                       !.PathFlags = {PATH_FLAG_ABSOLUTE, PATH_FLAG_ROOT}]
    ELSE [parts EXCEPT !.Root      = path_beg,
                       !.RootEnd   = path_beg,
                       !.PathFlags = {PATH_FLAG_RELATIVE}]

\* The root classification of LinuxPathStringParse for inp_chars >= 1.
LinuxRoot(parts, path_beg, m) ==
    IF Byte(m, path_beg) = Slash
    THEN [parts EXCEPT !.Root      = path_beg,
                       !.RootEnd   = path_beg + 1,
                       !.PathFlags = {PATH_FLAG_ABSOLUTE, PATH_FLAG_ROOT}]
    ELSE [parts EXCEPT !.Root      = path_beg,
                       !.RootEnd   = path_beg,
                       !.PathFlags = {PATH_FLAG_RELATIVE}]

\* LinuxClassify with the test  inp_chars > 1 : one character is rejected.
LinuxClassify_MoreThanOne(o_strinfo, sinfo, st) ==
    IF sinfo.LengthChars > 1
    THEN SplitterExit(
             LinuxPathExtractPathParts(
                 LinuxRoot(InitialParts(sinfo), sinfo.Buffer, st.mem), sinfo, st.mem),
             o_strinfo, sinfo, st)
    ELSE [ret   |-> -1,
          fault |-> FALSE,
          seen  |-> NoScan,
          mem   |-> st.mem,
          parts |-> [InitialParts(sinfo) EXCEPT !.PathFlags = {PATH_FLAG_INVALID}],
          info  |-> IF o_strinfo THEN sinfo ELSE st.info,
          errno |-> EINVAL]

\* if (inp_chars >= 1) { ... } else { PATH_FLAG_INVALID; return -1; }
LinuxClassify(o_strinfo, sinfo, st) ==
    IF sinfo.LengthChars >= 1
    THEN SplitterExit(
             LinuxPathExtractPathParts(
                 LinuxRoot(InitialParts(sinfo), sinfo.Buffer, st.mem), sinfo, st.mem),
             o_strinfo, sinfo, st)
    ELSE [ret   |-> -1,
          fault |-> FALSE,
          seen  |-> NoScan,
          mem   |-> st.mem,
          parts |-> [InitialParts(sinfo) EXCEPT !.PathFlags = {PATH_FLAG_INVALID}],
          info  |-> IF o_strinfo THEN sinfo ELSE st.info,
          errno |-> EINVAL]

LinuxPathStringParse(o_parts, o_strinfo, strinfo, strbuf, st) ==
    IF ~o_parts THEN NullPartsExit(o_strinfo, st)
    ELSE IF strbuf = NULL THEN NullBufferExit(o_strinfo, st)
    ELSE LinuxClassify(o_strinfo, DescribeInput(strinfo, strbuf, st.mem), st)

\* scan_for_end_of_root:  while (root_end < path_end) { ... }
\* s = [mem, root_end, fault, seen]; seen lists the value of root_end at
\* each execution of the loop body, the one that ends in a break included.
RECURSIVE RootEndScan(_, _)
RootEndScan(path_end, s) ==
    IF ~(s.root_end < path_end) THEN s
    ELSE IF s.root_end = NULL THEN [s EXCEPT !.fault = TRUE]
    ELSE IF Byte(s.mem, s.root_end) = Backslash
         THEN [s EXCEPT !.seen = Append(s.seen, s.root_end)]
    ELSE IF Byte(s.mem, s.root_end) = Slash
         THEN [s EXCEPT !.mem  = Poke(s.mem, s.root_end, Backslash),
                        !.seen = Append(s.seen, s.root_end)]
    ELSE RootEndScan(path_end,
             [s EXCEPT !.seen     = Append(s.seen, s.root_end),
                       !.root_end = Utf8StringNextCodepoint(s.mem, s.root_end)])

\* ScanForEndOfRoot that hands the splitter the start of the root instead
\* of its end, so that the segmentation pass walks the root again.
ScanForEndOfRoot_RescansRoot(root_beg, flags, o_strinfo, sinfo, st) ==
    LET path_end == sinfo.BufferEnd
        sc == RootEndScan(path_end,
                  [mem |-> st.mem, root_end |-> root_beg, fault |-> FALSE,
                   seen |-> << >>])
    IN IF sc.fault
       THEN [DirectExit(InitialParts(sinfo), sc.mem, o_strinfo, sinfo, st)
                EXCEPT !.fault = TRUE, !.seen.root = sc.seen]
       ELSE IF sc.root_end = path_end
       THEN [DirectExit(InitialParts(sinfo), sc.mem, o_strinfo, sinfo, st)
                EXCEPT !.seen.root = sc.seen]
       ELSE [SplitterExit(
                 Win32PathExtractPathParts(
                     [InitialParts(sinfo) EXCEPT !.Root      = root_beg,
                                                 !.RootEnd   = root_beg,
                                                 !.PathFlags = flags],
                     sinfo, sc.mem),
                 o_strinfo, sinfo, st)
                EXCEPT !.seen.root = sc.seen]

\* The tail of Win32PathStringParse from the label scan_for_end_of_root on.
ScanForEndOfRoot(root_beg, flags, o_strinfo, sinfo, st) ==
    LET path_end == sinfo.BufferEnd
        sc == RootEndScan(path_end,
                  [mem |-> st.mem, root_end |-> root_beg, fault |-> FALSE,
                   seen |-> << >>])
    IN IF sc.fault
       THEN [DirectExit(InitialParts(sinfo), sc.mem, o_strinfo, sinfo, st)
                EXCEPT !.fault = TRUE, !.seen.root = sc.seen]
       ELSE IF sc.root_end = path_end
       THEN [DirectExit(InitialParts(sinfo), sc.mem, o_strinfo, sinfo, st)
                EXCEPT !.seen.root = sc.seen]
       ELSE [SplitterExit(
                 Win32PathExtractPathParts(
                     [InitialParts(sinfo) EXCEPT !.Root      = root_beg,
                                                 !.RootEnd   = sc.root_end,
                                                 !.PathFlags = flags],
                     sinfo, sc.mem),
                 o_strinfo, sinfo, st)
                EXCEPT !.seen.root = sc.seen]

\* A call that sets Root, RootEnd and PathFlags and returns the splitter's
\* result.
FixedRoot(root_beg, root_end, flags, m, o_strinfo, sinfo, st) ==
    SplitterExit(
        Win32PathExtractPathParts(
            [InitialParts(sinfo) EXCEPT !.Root      = root_beg,
                                        !.RootEnd   = root_end,
                                        !.PathFlags = flags],
            sinfo, m),
        o_strinfo, sinfo, st)

\* Win32DoubleSeparator without the tests  inp_chars >= 5, inp_chars >= 6.
Win32DoubleSeparator_NoLengthTest(o_strinfo, sinfo, st) ==
    LET path_beg  == sinfo.Buffer
        m         == st.mem
    IN IF Byte(m, path_beg + 2) = Question /\ Byte(m, path_beg + 3) = Backslash
       THEN IF IsLetter(Byte(m, path_beg + 4)) /\ Byte(m, path_beg + 5) = Colon
            THEN FixedRoot(path_beg + 4, path_beg + 6,
                     {PATH_FLAG_ABSOLUTE, PATH_FLAG_LONG, PATH_FLAG_ROOT},
                     m, o_strinfo, sinfo, st)
            ELSE IF Byte(m, path_beg + 4) = Dot /\ Byte(m, path_beg + 5) = Backslash
            THEN ScanForEndOfRoot(path_beg + 6,
                     {PATH_FLAG_ABSOLUTE, PATH_FLAG_LONG, PATH_FLAG_DEVICE, PATH_FLAG_ROOT},
                     o_strinfo, sinfo, st)
            ELSE ScanForEndOfRoot(path_beg + 4,
                     {PATH_FLAG_ABSOLUTE, PATH_FLAG_LONG, PATH_FLAG_NETWORK, PATH_FLAG_ROOT},
                     o_strinfo, sinfo, st)
       ELSE IF Byte(m, path_beg + 2) = Dot /\ Byte(m, path_beg + 3) = Backslash
       THEN ScanForEndOfRoot(path_beg + 4,
                {PATH_FLAG_ABSOLUTE, PATH_FLAG_DEVICE, PATH_FLAG_ROOT},
                o_strinfo, sinfo, st)
       ELSE ScanForEndOfRoot(path_beg + 2,
                {PATH_FLAG_ABSOLUTE, PATH_FLAG_NETWORK, PATH_FLAG_ROOT},
                o_strinfo, sinfo, st)

\* if (path_beg[0] == '\\' && path_beg[1] == '\\') { ... }: the paths that
\* begin with two backslashes.
Win32DoubleSeparator(o_strinfo, sinfo, st) ==
    LET inp_chars == sinfo.LengthChars
        path_beg  == sinfo.Buffer
        m         == st.mem
    IN IF inp_chars >= 5 /\ Byte(m, path_beg + 2) = Question
                         /\ Byte(m, path_beg + 3) = Backslash
       THEN IF inp_chars >= 6 /\ IsLetter(Byte(m, path_beg + 4))
                              /\ Byte(m, path_beg + 5) = Colon
            THEN FixedRoot(path_beg + 4, path_beg + 6,
                     {PATH_FLAG_ABSOLUTE, PATH_FLAG_LONG, PATH_FLAG_ROOT},
                     m, o_strinfo, sinfo, st)
            ELSE IF inp_chars >= 6 /\ Byte(m, path_beg + 4) = Dot
                                   /\ Byte(m, path_beg + 5) = Backslash
            THEN ScanForEndOfRoot(path_beg + 6,
                     {PATH_FLAG_ABSOLUTE, PATH_FLAG_LONG, PATH_FLAG_DEVICE, PATH_FLAG_ROOT},
                     o_strinfo, sinfo, st)
            ELSE ScanForEndOfRoot(path_beg + 4,
                     {PATH_FLAG_ABSOLUTE, PATH_FLAG_LONG, PATH_FLAG_NETWORK, PATH_FLAG_ROOT},
                     o_strinfo, sinfo, st)
       ELSE IF inp_chars >= 5 /\ Byte(m, path_beg + 2) = Dot
                              /\ Byte(m, path_beg + 3) = Backslash
       THEN ScanForEndOfRoot(path_beg + 4,
                {PATH_FLAG_ABSOLUTE, PATH_FLAG_DEVICE, PATH_FLAG_ROOT},
                o_strinfo, sinfo, st)
       ELSE ScanForEndOfRoot(path_beg + 2,
                {PATH_FLAG_ABSOLUTE, PATH_FLAG_NETWORK, PATH_FLAG_ROOT},
                o_strinfo, sinfo, st)

\* Win32Long that does not rewrite a leading "/".
Win32Long_KeepsLeadingSlash(o_strinfo, sinfo, st) ==
    LET path_beg == sinfo.Buffer
        m        == st.mem
        b0       == Byte(m, path_beg)
        b1       == Byte(m, path_beg + 1)
    IN IF b0 = Backslash /\ b1 = Backslash
       THEN Win32DoubleSeparator(o_strinfo, sinfo, st)
       ELSE IF b0 = Backslash \/ b0 = Slash
       THEN FixedRoot(path_beg, path_beg + 1,
                {PATH_FLAG_ABSOLUTE, PATH_FLAG_ROOT}, m, o_strinfo, sinfo, st)
       ELSE IF IsLetter(b0) /\ b1 = Colon
       THEN FixedRoot(path_beg, path_beg + 2,
                {PATH_FLAG_ABSOLUTE, PATH_FLAG_ROOT}, m, o_strinfo, sinfo, st)
       ELSE FixedRoot(path_beg, path_beg,
                {PATH_FLAG_RELATIVE}, m, o_strinfo, sinfo, st)

\* if (inp_chars >= 3) { ... }
Win32Long(o_strinfo, sinfo, st) ==
    LET path_beg == sinfo.Buffer
        m        == st.mem
        b0       == Byte(m, path_beg)
        b1       == Byte(m, path_beg + 1)
    IN IF b0 = Backslash /\ b1 = Backslash
       THEN Win32DoubleSeparator(o_strinfo, sinfo, st)
       ELSE IF b0 = Backslash \/ b0 = Slash
       THEN FixedRoot(path_beg, path_beg + 1,
                {PATH_FLAG_ABSOLUTE, PATH_FLAG_ROOT},
                IF b0 = Slash THEN Poke(m, path_beg, Backslash) ELSE m,
                o_strinfo, sinfo, st)
       ELSE IF IsLetter(b0) /\ b1 = Colon
       THEN FixedRoot(path_beg, path_beg + 2,
                {PATH_FLAG_ABSOLUTE, PATH_FLAG_ROOT}, m, o_strinfo, sinfo, st)
       ELSE FixedRoot(path_beg, path_beg,
                {PATH_FLAG_RELATIVE}, m, o_strinfo, sinfo, st)

\* Win32TwoChars without the case of "." followed by a separator.
Win32TwoChars_NoDotCase(o_strinfo, sinfo, st) ==
    LET path_beg == sinfo.Buffer
        m        == st.mem
        init     == InitialParts(sinfo)
    IN IF IsLetter(Byte(m, path_beg)) /\ Byte(m, path_beg + 1) = Colon
       THEN DirectExit([init EXCEPT !.Root      = path_beg,
                                    !.RootEnd   = path_beg + 2,
                                    !.PathFlags = {PATH_FLAG_ABSOLUTE, PATH_FLAG_ROOT}],
                m, o_strinfo, sinfo, st)
       ELSE DirectExit([init EXCEPT !.Root      = path_beg,
                                    !.RootEnd   = path_beg,
                                    !.Path      = path_beg,
                                    !.PathEnd   = path_beg + 2,
                                    !.PathFlags = {PATH_FLAG_RELATIVE, PATH_FLAG_DIRECTORY}],
                m, o_strinfo, sinfo, st)

\* else if (inp_chars == 2) { ... }
Win32TwoChars(o_strinfo, sinfo, st) ==
    LET path_beg == sinfo.Buffer
        m        == st.mem
        b0       == Byte(m, path_beg)
        b1       == Byte(m, path_beg + 1)
        init     == InitialParts(sinfo)
    IN IF IsLetter(b0) /\ b1 = Colon
       THEN DirectExit([init EXCEPT !.Root      = path_beg,
                                    !.RootEnd   = path_beg + 2,
                                    !.PathFlags = {PATH_FLAG_ABSOLUTE, PATH_FLAG_ROOT}],
                m, o_strinfo, sinfo, st)
       ELSE IF b0 = Dot /\ (b1 = Backslash \/ b1 = Slash)
       THEN DirectExit([init EXCEPT !.Root      = path_beg,
                                    !.RootEnd   = path_beg,
                                    !.Path      = path_beg,
                                    !.PathEnd   = path_beg + 1,
                                    !.PathFlags = {PATH_FLAG_RELATIVE, PATH_FLAG_DIRECTORY}],
                IF b1 = Slash THEN Poke(m, path_beg + 1, Backslash) ELSE m,
                o_strinfo, sinfo, st)
       ELSE DirectExit([init EXCEPT !.Root      = path_beg,
                                    !.RootEnd   = path_beg,
                                    !.Path      = path_beg,
                                    !.PathEnd   = path_beg + 2,
                                    !.PathFlags = {PATH_FLAG_RELATIVE, PATH_FLAG_DIRECTORY}],
                m, o_strinfo, sinfo, st)

\* else { /* just a single character */ ... }: every inp_chars below 2.
Win32OneChar(o_strinfo, sinfo, st) ==
    LET path_beg == sinfo.Buffer
        m1       == IF Byte(st.mem, path_beg) = Slash
                    THEN Poke(st.mem, path_beg, Backslash)
                    ELSE st.mem
        init     == InitialParts(sinfo)
    IN DirectExit([init EXCEPT !.Root      = path_beg,
                               !.RootEnd   = path_beg,
                               !.Path      = path_beg,
                               !.PathEnd   = path_beg + 1,
                               !.PathFlags =
                                   IF Byte(m1, path_beg) = Backslash
                                   THEN {PATH_FLAG_ABSOLUTE, PATH_FLAG_DIRECTORY}
                                   ELSE {PATH_FLAG_RELATIVE, PATH_FLAG_DIRECTORY}],
           m1, o_strinfo, sinfo, st)

\* The length tiers of Win32PathStringParse.
Win32Classify(o_strinfo, sinfo, st) ==
    IF sinfo.LengthChars >= 3 THEN Win32Long(o_strinfo, sinfo, st)
    ELSE IF sinfo.LengthChars = 2 THEN Win32TwoChars(o_strinfo, sinfo, st)
    ELSE Win32OneChar(o_strinfo, sinfo, st)

Win32PathStringParse(o_parts, o_strinfo, strinfo, strbuf, st) ==
    IF ~o_parts THEN NullPartsExit(o_strinfo, st)
    ELSE IF strbuf = NULL THEN NullBufferExit(o_strinfo, st)
    ELSE Win32Classify(o_strinfo, DescribeInput(strinfo, strbuf, st.mem), st)

-----------------------------------------------------------------------------
(* The inputs.                                                             *)

\* The characters free tails are built from: both separators, the dot, the
\* colon and a letter.
Alphabet == {Slash, Backslash, Dot, Colon, LowerA}

\* All sequences over S of length at most n.
RECURSIVE SeqsUpTo(_, _)
SeqsUpTo(S, n) ==
    IF n = 0 THEN {<< >>}
    ELSE LET shorter == SeqsUpTo(S, n - 1)
         IN shorter \cup {Append(t, c) : t \in {u \in shorter : Len(u) = n - 1}, c \in S}

\* The prefixes the Windows root classifier distinguishes beyond the reach
\* of a free tail:  \\?\   \\.\   \\?\.\   \\?\a:
Prefixes ==
    {<< >>,
     <<Backslash, Backslash, Question, Backslash>>,
     <<Backslash, Backslash, Dot, Backslash>>,
     <<Backslash, Backslash, Question, Backslash, Dot, Backslash>>,
     <<Backslash, Backslash, Question, Backslash, LowerA, Colon>>}

\* "archive.tar.gz" and ".filename"
ArchiveTarGz == <<97, 114, 99, 104, 105, 118, 101, 46, 116, 97, 114, 46, 103, 122>>
DotFilename  == <<46, 102, 105, 108, 101, 110, 97, 109, 101>>

\* "a:\\a.a": a drive, a doubled separator and a file name
DriveDoubledSeparator ==
    <<LowerA, Colon, Backslash, Backslash, LowerA, Dot, LowerA>>

\* "C:\dos\path\to\file.ext"
DosPathToFileExt ==
    <<67, 58, 92, 100, 111, 115, 92, 112, 97, 116, 104, 92, 116, 111, 92,
      102, 105, 108, 101, 46, 101, 120, 116>>

Scenarios == {ArchiveTarGz, DotFilename, DriveDoubledSeparator, DosPathToFileExt}

Inputs == {p \o t : p \in Prefixes, t \in SeqsUpTo(Alphabet, MaxTail)} \cup Scenarios

\* A byte that Utf8StringNextCodepoint takes for an invalid codepoint.
InvalidByte == 255

\* Inputs that hold the invalid byte, after up to MaxTail - 1 characters and
\* before at most one.
InvalidInputs ==
    {p \o <<InvalidByte>> \o t :
        p \in SeqsUpTo(Alphabet, MaxTail - 1), t \in SeqsUpTo(Alphabet, 1)}

\* The values the byte stored after the terminator may have: what matters
\* to the code is only whether it is a dot.
TrailingBytes == {NUL, Dot}

-----------------------------------------------------------------------------
(* The state machine: a caller that owns one buffer, one PATH_PARTS and    *)
(* one STRING_INFO, and calls the two entry points on them.                *)

VARIABLES
    input,    \* the text the caller stored in the buffer (no terminator)
    mem,      \* the buffer: text, terminator and the byte after it
    strbuf,   \* the buffer pointer the caller passes: BufAddr or NULL
    parts,    \* the caller's PATH_PARTS
    info,     \* the caller's STRING_INFO (o_strinfo, reused as the hint)
    errno,    \* errno after the last call (cleared by the caller before it)
    ret,      \* the value the last call returned
    call,     \* the last call: [fn, o_parts, o_strinfo]
    writer,   \* the entry point that last wrote parts ("none" at first)
    seen,     \* where the loop bodies of the last call ran: [root, fwd, bwd]
    crashed   \* the last call read through a NULL cursor and did not return

\* A caller of the byte order marker functions of strlib.cc.
VARIABLES
    marker,         \* uint8_t marker[4] and the byte stored after it
    text_encoding,  \* the encoding last passed to ByteOrderMarkerForEncoding
    bom_size,       \* the value ByteOrderMarkerForEncoding returned
    encoding,       \* the value EncodingForByteOrderMarker returned
    bytecount,      \* *o_bytecount after EncodingForByteOrderMarker
    bompc           \* "idle", "written", "decoded" (read after a write), "read"

\* A caller of Base64Encode.
VARIABLES
    num_src,        \* the number of source bytes of the last call
    max_dst,        \* the capacity of dst in the last call
    numdst,         \* *o_numdst after the last call
    required,       \* *o_numdst after the last size query (dst NULL, max_dst 0)
    b64ret,         \* the value the last call returned
    dstwritten,     \* the offsets from dst the last call stored a byte at
    b64pc           \* "idle", "sized", "encoded"

pathvars == <<input, mem, strbuf, parts, info, errno, ret, call, writer, seen,
              crashed>>
bomvars == <<marker, text_encoding, bom_size, encoding, bytecount, bompc>>
b64vars == <<num_src, max_dst, numdst, required, b64ret, dstwritten, b64pc>>

vars == <<input, mem, strbuf, parts, info, errno, ret, call, writer, seen,
          crashed, marker, text_encoding, bom_size, encoding, bytecount, bompc,
          num_src, max_dst, numdst, required, b64ret, dstwritten, b64pc>>

NoCall == [fn |-> "none", o_parts |-> FALSE, o_strinfo |-> FALSE]

\* A program that does not call the byte order marker functions.
BomIdle ==
    /\ marker = <<0, 0, 0, 0, 0>>
    /\ text_encoding = 0
    /\ bom_size = 0
    /\ encoding = 0
    /\ bytecount = 0
    /\ bompc = "idle"

\* A program that does not call Base64Encode.
Base64Idle ==
    /\ num_src = 0
    /\ max_dst = 0
    /\ numdst = 0
    /\ required = 0
    /\ b64ret = 0
    /\ dstwritten = {}
    /\ b64pc = "idle"

\* A program that does not call the path parsers.
PathIdle ==
    /\ input = << >>
    /\ mem = <<NUL, NUL>>
    /\ strbuf = NULL
    /\ parts = ZeroParts
    /\ info = ZeroInfo
    /\ errno = 0
    /\ ret = 0
    /\ call = NoCall
    /\ writer = "none"
    /\ seen = NoScan
    /\ crashed = FALSE

\* The caller passes NULL instead of a buffer, or a buffer holding an input.
Init ==
    /\ input \in Inputs
    /\ \E b \in TrailingBytes : mem = input \o <<NUL, b>>
    /\ strbuf \in (IF input = << >> /\ mem[2] = NUL THEN {BufAddr, NULL} ELSE {BufAddr})
    /\ parts = ZeroParts
    /\ info = ZeroInfo
    /\ errno = 0
    /\ ret = 0
    /\ call = NoCall
    /\ writer = "none"
    /\ seen = NoScan
    /\ crashed = FALSE
    /\ BomIdle /\ Base64Idle

\* The caller may pass its STRING_INFO as the hint once a call has filled it
\* in for this buffer.
HintUsable == strbuf # NULL /\ info.Buffer = strbuf

\* The ways the caller passes its arguments: <<o_parts, o_strinfo, hint>>.
Arguments ==
    {<<TRUE, TRUE, FALSE>>, <<TRUE, TRUE, TRUE>>,
     <<FALSE, TRUE, FALSE>>, <<FALSE, FALSE, FALSE>>}

\* The bookkeeping common to the two calls; r is the result of the call.
\* A call that reads through a NULL cursor ends the process: it returns
\* nothing, and what it stored before the read stays stored.
Return(fn, a, r) ==
    /\ ~crashed
    /\ crashed' = r.fault
    /\ mem'    = r.mem
    /\ parts'  = r.parts
    /\ info'   = IF r.fault THEN info ELSE r.info
    /\ errno'  = r.errno
    /\ ret'    = IF r.fault THEN ret ELSE r.ret
    /\ call'   = [fn |-> fn, o_parts |-> a[1], o_strinfo |-> a[2]]
    /\ writer' = IF a[1] THEN fn ELSE writer
    /\ seen'   = r.seen
    /\ UNCHANGED <<input, strbuf>>
    /\ UNCHANGED <<bomvars, b64vars>>

Caller == [mem |-> mem, parts |-> parts, info |-> info, errno |-> 0]

LinuxParse ==
    \E a \in Arguments :
        /\ a[3] => HintUsable
        /\ Return("linux", a,
               LinuxPathStringParse(a[1], a[2],
                   IF a[3] THEN <<info>> ELSE << >>, strbuf, Caller))

Win32Parse ==
    \E a \in Arguments :
        /\ a[3] => HintUsable
        /\ Return("win32", a,
               Win32PathStringParse(a[1], a[2],
                   IF a[3] THEN <<info>> ELSE << >>, strbuf, Caller))

Next == LinuxParse \/ Win32Parse

Spec == Init /\ [][Next]_vars

\* The same caller with a buffer that holds a byte that starts no codepoint.
InitInvalid ==
    /\ input \in InvalidInputs
    /\ \E b \in TrailingBytes : mem = input \o <<NUL, b>>
    /\ strbuf = BufAddr
    /\ parts = ZeroParts
    /\ info = ZeroInfo
    /\ errno = 0
    /\ ret = 0
    /\ call = NoCall
    /\ writer = "none"
    /\ seen = NoScan
    /\ crashed = FALSE
    /\ BomIdle /\ Base64Idle

SpecInvalid == InitInvalid /\ [][Next]_vars

-----------------------------------------------------------------------------
(* strlib.cc: the byte order marker functions.                             *)
(*                                                                         *)
(* The caller's array uint8_t marker[4] is the first four elements of a    *)
(* sequence of five bytes; the fifth is the byte stored after the array.   *)
(* A store to o_marker[4] is a store past the array, which changes that    *)
(* byte.                                                                   *)

TEXT_ENCODING_UNSURE    == 0
TEXT_ENCODING_UTF8      == 1
TEXT_ENCODING_UTF16_MSB == 2
TEXT_ENCODING_UTF16_LSB == 3
TEXT_ENCODING_UTF32_MSB == 4
TEXT_ENCODING_UTF32_LSB == 5

\* a[i] = b for a C index i.
Store(a, i, b) == [a EXCEPT ![i + 1] = b]

\* a[i] for a C index i.
At(a, i) == a[i + 1]

\* ByteOrderMarkerForEncoding(o_marker, text_encoding): the array after the
\* call and the value returned.  The two cases that only assert store
\* nothing and return 0.
ByteOrderMarkerForEncoding(o_marker, enc) ==
    IF enc = TEXT_ENCODING_UTF8
    THEN [marker   |-> Store(Store(Store(Store(o_marker, 0, 239), 1, 187), 2, 191), 4, 0),
          bom_size |-> 3]
    ELSE IF enc = TEXT_ENCODING_UTF16_MSB
    THEN [marker   |-> Store(Store(Store(Store(o_marker, 0, 254), 1, 255), 2, 0), 3, 0),
          bom_size |-> 2]
    ELSE IF enc = TEXT_ENCODING_UTF16_LSB
    THEN [marker   |-> Store(Store(Store(Store(o_marker, 0, 255), 1, 254), 2, 0), 3, 0),
          bom_size |-> 2]
    ELSE IF enc = TEXT_ENCODING_UTF32_MSB
    THEN [marker   |-> Store(Store(Store(Store(o_marker, 0, 0), 1, 0), 2, 254), 3, 255),
          bom_size |-> 4]
    ELSE IF enc = TEXT_ENCODING_UTF32_LSB
    THEN [marker   |-> Store(Store(Store(Store(o_marker, 0, 255), 1, 254), 2, 0), 3, 0),
          bom_size |-> 4]
    ELSE [marker |-> o_marker, bom_size |-> 0]

\* EncodingForByteOrderMarker(o_bytecount, marker): the value returned and
\* the value stored in *o_bytecount.
EncodingForByteOrderMarker(m) ==
    IF At(m, 0) = 0
    THEN IF At(m, 1) = 0 /\ At(m, 2) = 254 /\ At(m, 3) = 255
         THEN [encoding |-> TEXT_ENCODING_UTF32_MSB, bom_size |-> 4]
         ELSE [encoding |-> TEXT_ENCODING_UNSURE, bom_size |-> 0]
    ELSE IF At(m, 0) = 255
    THEN IF At(m, 1) = 254
         THEN IF At(m, 2) = 0 /\ At(m, 3) = 0
              THEN [encoding |-> TEXT_ENCODING_UTF32_LSB, bom_size |-> 4]
              ELSE [encoding |-> TEXT_ENCODING_UTF16_LSB, bom_size |-> 2]
         ELSE [encoding |-> TEXT_ENCODING_UNSURE, bom_size |-> 0]
    ELSE IF At(m, 0) = 254 /\ At(m, 1) = 255
    THEN [encoding |-> TEXT_ENCODING_UTF16_MSB, bom_size |-> 2]
    ELSE IF At(m, 0) = 239 /\ At(m, 1) = 187 /\ At(m, 2) = 191
    THEN [encoding |-> TEXT_ENCODING_UTF8, bom_size |-> 3]
    ELSE [encoding |-> TEXT_ENCODING_UNSURE, bom_size |-> 0]

\* The encodings that have a byte order marker.
Encodings ==
    {TEXT_ENCODING_UTF8, TEXT_ENCODING_UTF16_MSB, TEXT_ENCODING_UTF16_LSB,
     TEXT_ENCODING_UTF32_MSB, TEXT_ENCODING_UTF32_LSB}

\* The values a byte of the caller's memory may hold before any call: zero
\* and the two bytes the markers are told apart by.
MarkerBytes == {0, 254, 255}

\* The array holds what the caller's memory held: the function is handed
\* an array it has not filled in.
InitBom ==
    /\ marker \in [1..5 -> MarkerBytes]
    /\ text_encoding = 0
    /\ bom_size = 0
    /\ encoding = 0
    /\ bytecount = 0
    /\ bompc = "idle"
    /\ PathIdle /\ Base64Idle

\* bom_size = ByteOrderMarkerForEncoding(marker, e)
WriteMarker ==
    \E e \in Encodings :
        LET r == ByteOrderMarkerForEncoding(marker, e)
        IN /\ marker' = r.marker
           /\ text_encoding' = e
           /\ bom_size' = r.bom_size
           /\ bompc' = "written"
           /\ UNCHANGED <<encoding, bytecount>>
           /\ UNCHANGED <<pathvars, b64vars>>

\* encoding = EncodingForByteOrderMarker(&bytecount, marker)
ReadMarker ==
    LET r == EncodingForByteOrderMarker(marker)
    IN /\ encoding' = r.encoding
       /\ bytecount' = r.bom_size
       /\ bompc' = IF bompc = "written" THEN "decoded" ELSE "read"
       /\ UNCHANGED <<marker, text_encoding, bom_size>>
       /\ UNCHANGED <<pathvars, b64vars>>

NextBom == WriteMarker \/ ReadMarker

SpecBom == InitBom /\ [][NextBom]_vars

-----------------------------------------------------------------------------
(* strlib.cc: Base64Encode.                                                *)
(*                                                                         *)
(* The claims are about how many bytes are stored and where, so the model  *)
(* keeps the offsets from dst at which the call stores a byte and leaves   *)
(* out the characters stored.  A store at an offset of max_dst or more is  *)
(* a store past the destination buffer; it lands in the memory behind it.  *)

\* Bounds: the largest source size and the largest destination capacity
\* the caller uses.
MaxSrc == 7
MaxDst == 20

ENOBUFS == 105

\* Base64SizeForBinary(&pad, binsize): the size returned and the pad size.
Base64SizeForBinary(binsize) ==
    LET rem == binsize % 3
        pad == IF rem # 0 THEN 3 - rem ELSE 0
    IN [size |-> ((binsize + pad) \div 3) * 4 + 1, pad |-> pad]

\* while (ins > 3) { ...; *out++ four times; inp += 3; ins -= 3; }
\* s = [ins, out, stored]; out is the offset of the output cursor from dst.
RECURSIVE EncodeTriples(_)
EncodeTriples(s) ==
    IF s.ins > 3
    THEN EncodeTriples([ins    |-> s.ins - 3,
                        out    |-> s.out + 4,
                        stored |-> s.stored \cup (s.out..(s.out + 3))])
    ELSE s

\* for (out += 1 + ins; ins++ != 3; ) { *out++ = '='; }  after the skip.
RECURSIVE EncodePadding(_)
EncodePadding(s) ==
    IF s.ins # 3
    THEN EncodePadding([ins    |-> s.ins + 1,
                        out    |-> s.out + 1,
                        stored |-> s.stored \cup {s.out}])
    ELSE s

\* if (ins > 0) { ...; *out++ four times; the padding loop }
EncodeRemainder(s) ==
    IF s.ins > 0
    THEN EncodePadding([ins    |-> s.ins,
                        out    |-> s.out + 4 + 1 + s.ins,
                        stored |-> s.stored \cup (s.out..(s.out + 3))])
    ELSE s

\* Base64Encode(&numdst, dst, max_dst, src, num_src) with src not NULL;
\* dst_null tells that dst is NULL.  Result: [ret, numdst, errno, stored].
Base64Encode(dst_null, maxdst, numsrc) ==
    LET req == Base64SizeForBinary(numsrc).size
    IN IF numsrc = 0
       THEN [ret |-> 0, numdst |-> 0, errno |-> 0, stored |-> {}]
       ELSE IF dst_null /\ maxdst = 0
       THEN [ret |-> 0, numdst |-> req, errno |-> 0, stored |-> {}]
       ELSE IF req > maxdst
       THEN [ret |-> -1, numdst |-> 0, errno |-> ENOBUFS, stored |-> {}]
       ELSE LET body == EncodeRemainder(
                            EncodeTriples([ins |-> numsrc, out |-> 0, stored |-> {}]))
            IN [ret    |-> 0,
                numdst |-> body.out + 1,
                errno  |-> 0,
                stored |-> body.stored \cup {body.out}]

InitBase64 ==
    /\ num_src = 0
    /\ max_dst = 0
    /\ numdst = 0
    /\ required = 0
    /\ b64ret = 0
    /\ dstwritten = {}
    /\ b64pc = "idle"
    /\ PathIdle /\ BomIdle

\* Base64Encode(&required, NULL, 0, src, n): the size query.
SizeQuery ==
    \E n \in 0..MaxSrc :
        LET r == Base64Encode(TRUE, 0, n)
        IN /\ num_src' = n
           /\ max_dst' = 0
           /\ numdst' = r.numdst
           /\ required' = r.numdst
           /\ b64ret' = r.ret
           /\ dstwritten' = r.stored
           /\ b64pc' = "sized"
           /\ UNCHANGED <<pathvars, bomvars>>

\* Base64Encode(&numdst, dst, cap, src, num_src) into a buffer of cap bytes,
\* for the source the size query was made for.
Encode ==
    /\ b64pc # "idle"
    /\ \E cap \in 1..MaxDst :
        LET r == Base64Encode(FALSE, cap, num_src)
        IN /\ max_dst' = cap
           /\ numdst' = r.numdst
           /\ b64ret' = r.ret
           /\ dstwritten' = r.stored
           /\ b64pc' = "encoded"
           /\ UNCHANGED <<num_src, required>>
           /\ UNCHANGED <<pathvars, bomvars>>

NextBase64 == SizeQuery \/ Encode

SpecBase64 == InitBase64 /\ [][NextBase64]_vars

-----------------------------------------------------------------------------
(* Vocabulary of the properties.                                           *)

\* The last call was made with a non-null o_parts, so parts is its output.
Parsed == call.fn # "none" /\ call.o_parts

\* The caller passed a buffer that holds at least one character.
NonEmptyInput == strbuf # NULL /\ Len(input) >= 1

Flag(f) == f \in parts.PathFlags

\* The address of the terminator and of the byte after it.
Terminator == BufAddr + Len(input)
PastTerminator == Terminator + 1

\* The bytes of m at the addresses a, ..., b - 1 (none when b <= a).
Text(m, a, b) == [i \in 1..(IF b > a THEN b - a ELSE 0) |-> Byte(m, a + i - 1)]

IsSeparator(c) == c = Slash \/ c = Backslash

\* The filename candidate of the input: the text after its last separator.
\* CandidateStart is the index in input of its first character.
CandidateStart ==
    LET seps == {i \in 1..Len(input) : IsSeparator(input[i])}
    IN IF seps = {} THEN 1
       ELSE 1 + CHOOSE i \in seps : \A j \in seps : j <= i

\* The indices of the dots of the candidate that are not its first character.
NonLeadingDots == {i \in (CandidateStart + 1)..Len(input) : input[i] = Dot}

\* The address of the character input[i].
AddrOf(i) == BufAddr + i - 1

\* The splitter ran over the whole filename candidate: the root the
\* classifier recorded ends at or before the candidate.
SplitterSawCandidate ==
    /\ Parsed /\ NonEmptyInput /\ ret = 0
    /\ parts.RootEnd <= AddrOf(CandidateStart)
    /\ Len(input) >= 3 \/ call.fn = "linux"

-----------------------------------------------------------------------------
-----------------------------------------------------------------------------
(* C2: when the filename candidate contains more than one non-leading dot, *)
(* the backward extension scan splits at the right-most dot, in the POSIX  *)
(* and in the Windows splitter: the filename ends at that dot and the      *)
(* extension begins right after it ("archive.tar.gz" gives the filename    *)
(* "archive.tar" and an extension that begins at "gz").                    *)
C2_SplitsAtRightmostDot ==
    (SplitterSawCandidate /\ Cardinality(NonLeadingDots) > 1) =>
        LET last == CHOOSE i \in NonLeadingDots : \A j \in NonLeadingDots : j <= i
        IN /\ Flag(PATH_FLAG_FILENAME) /\ Flag(PATH_FLAG_EXTENSION)
           /\ parts.Filename = AddrOf(CandidateStart)
           /\ parts.FilenameEnd = AddrOf(last)
           /\ parts.Extension = AddrOf(last) + 1

-----------------------------------------------------------------------------
(* The POSIX parse of ".filename", a candidate whose only dot is its first *)
(* character.                                                              *)
ParsedDotFilename ==
    Parsed /\ call.fn = "linux" /\ ret = 0 /\ input = DotFilename

\* The byte after the terminator, which the extension scan reads first.
TrailingByte == mem[Len(mem)]

(* C3 as stated: ".filename" on POSIX is kept whole as the filename: the   *)
(* directory is empty, the filename range spans ".filename", the extension *)
(* is empty, FILENAME is set and EXTENSION is not.                         *)
C3_DotFilenameIsFilename ==
    ParsedDotFilename =>
        /\ parts.Path = parts.PathEnd
        /\ Text(mem, parts.Filename, parts.FilenameEnd) = DotFilename
        /\ parts.Extension = parts.ExtensionEnd
        /\ Flag(PATH_FLAG_FILENAME) /\ ~Flag(PATH_FLAG_EXTENSION)

(* C3 amended: ".filename" on POSIX is never split at its leading dot, and *)
(* it is reported as a directory, not as a filename: RELATIVE with an      *)
(* empty root; when the byte after the terminator is not a dot, DIRECTORY  *)
(* is set, FILENAME and EXTENSION are not, the directory range runs from   *)
(* the start of the buffer to the buffer end and the filename and the      *)
(* extension are empty at the buffer end; FILENAME is set only together    *)
(* with EXTENSION, when the byte after the terminator is a dot, and then   *)
(* the filename range begins at the leading dot and runs to the buffer end.*)
C3_DotFilenameIsDirectory ==
    ParsedDotFilename =>
        /\ Flag(PATH_FLAG_RELATIVE) /\ ~Flag(PATH_FLAG_ROOT)
        /\ parts.Root = BufAddr /\ parts.RootEnd = BufAddr
        /\ Flag(PATH_FLAG_FILENAME) <=> Flag(PATH_FLAG_EXTENSION)
        /\ Flag(PATH_FLAG_EXTENSION) <=> (TrailingByte = Dot)
        /\ Flag(PATH_FLAG_DIRECTORY) <=> ~Flag(PATH_FLAG_FILENAME)
        /\ Flag(PATH_FLAG_DIRECTORY) =>
              /\ parts.Path = BufAddr /\ parts.PathEnd = PastTerminator
              /\ parts.Filename = PastTerminator
              /\ parts.FilenameEnd = PastTerminator
              /\ parts.Extension = PastTerminator
              /\ parts.ExtensionEnd = PastTerminator
        /\ Flag(PATH_FLAG_FILENAME) =>
              /\ parts.Filename = BufAddr
              /\ parts.FilenameEnd = PastTerminator

C3_DotFilenameParsed ==
    ParsedDotFilename /\ TrailingByte = NUL /\ Flag(PATH_FLAG_DIRECTORY)

-----------------------------------------------------------------------------
(* C4: parsing is idempotent: parsing again a buffer that the same entry   *)
(* point has already parsed (and so already rewritten with its canonical   *)
(* separator) yields the same ranges and the same flags as the first       *)
(* parse.                                                                  *)
C4_ReparseYieldsSameParts ==
    [][(call'.o_parts /\ call'.fn = writer /\ NonEmptyInput) =>
          parts' = parts]_vars

-----------------------------------------------------------------------------
\* The canonical separator of the entry point that made the last call.
Separator == IF call.fn = "linux" THEN Slash ELSE Backslash

\* t with every separator replaced by the canonical one.
Canonical(t) == [i \in 1..Len(t) |-> IF IsSeparator(t[i]) THEN Separator ELSE t[i]]

\* The text the round trip of the specification puts together.
Reconstructed ==
    Text(mem, parts.Root, parts.RootEnd)
    \o (IF Flag(PATH_FLAG_DIRECTORY) /\ parts.Path # parts.PathEnd
        THEN <<Separator>> ELSE << >>)
    \o Text(mem, parts.Path, parts.PathEnd)
    \o <<Separator>>
    \o Text(mem, parts.Filename, parts.FilenameEnd)
    \o (IF Flag(PATH_FLAG_EXTENSION)
        THEN <<Dot>> \o Text(mem, parts.Extension, parts.ExtensionEnd) ELSE << >>)

(* C5 as stated: for every successfully parsed path, the root text, a      *)
(* separator if DIRECTORY is set and the directory is not empty, the       *)
(* directory text, a separator, the filename text and, if there is an      *)
(* extension, "." and the extension text, concatenated, are the            *)
(* canonically separated form of the original path.  (Stated for the      *)
(* buffers whose terminator is followed by a zero byte, where the          *)
(* extension scan reads nothing but zero past the terminator.)             *)
C5_ConcatenationIsCanonicalPath ==
    (Parsed /\ NonEmptyInput /\ ret = 0 /\ TrailingByte = NUL) =>
        Reconstructed = Canonical(input)

\* The addresses the four ranges of the output cover.
Covered ==
    {p \in BufAddr..PastTerminator :
        \/ parts.Root <= p /\ p < parts.RootEnd
        \/ parts.Path <= p /\ p < parts.PathEnd
        \/ parts.Filename <= p /\ p < parts.FilenameEnd
        \/ parts.Extension <= p /\ p < parts.ExtensionEnd}

\* The characters of the path, from the start of the root to the
\* terminator, that are in none of the four ranges.
Uncovered == {p \in parts.Root..(Terminator - 1) : p \notin Covered}

(* C5 amended: for every successfully parsed path the root, directory,     *)
(* filename and extension texts follow one another in this order in the    *)
(* parsed buffer, and the original is put together again from them by      *)
(* restoring only separators and the extension dot: every character from   *)
(* the start of the root to the terminator that is in none of the four     *)
(* ranges is a canonical separator, or the dot at the filename end; when   *)
(* EXTENSION is set the byte at the filename end is a dot and the          *)
(* extension begins right after it.  (What precedes the root start, and    *)
(* the terminator, are not part of the round trip.)                        *)
C5_RangesAndSeparatorsCoverPath ==
    (Parsed /\ strbuf # NULL /\ ret = 0) =>
        /\ parts.Root <= parts.RootEnd /\ parts.RootEnd <= parts.Path
        /\ parts.Path <= parts.PathEnd /\ parts.PathEnd <= parts.Filename
        /\ parts.Filename <= parts.FilenameEnd
        /\ parts.FilenameEnd <= parts.Extension
        /\ \A p \in Uncovered :
              \/ Byte(mem, p) = Separator
              \/ Byte(mem, p) = Dot /\ p = parts.FilenameEnd
        /\ Flag(PATH_FLAG_EXTENSION) =>
              /\ Byte(mem, parts.FilenameEnd) = Dot
              /\ parts.Extension = parts.FilenameEnd + 1

C5_SeparatorAndDotRestored ==
    /\ Parsed /\ NonEmptyInput /\ ret = 0
    /\ Flag(PATH_FLAG_FILENAME) /\ Flag(PATH_FLAG_EXTENSION)
    /\ TrailingByte = NUL
    /\ \E p \in Uncovered : Byte(mem, p) = Separator
    /\ \E p \in Uncovered : Byte(mem, p) = Dot

-----------------------------------------------------------------------------
\* Every range field of the output is the null pointer.
RangesZeroed ==
    /\ parts.Root = NULL /\ parts.RootEnd = NULL
    /\ parts.Path = NULL /\ parts.PathEnd = NULL
    /\ parts.Filename = NULL /\ parts.FilenameEnd = NULL
    /\ parts.Extension = NULL /\ parts.ExtensionEnd = NULL

(* C6: with a valid o_parts and a null or empty buffer, both entry points  *)
(* return an error with the invalid-argument code, every range field of    *)
(* o_parts is zeroed and PathFlags is exactly INVALID.                     *)
C6_NullOrEmptyBufferIsInvalid ==
    (Parsed /\ ~NonEmptyInput) =>
        /\ ret = -1 /\ errno = EINVAL
        /\ RangesZeroed
        /\ parts.PathFlags = {PATH_FLAG_INVALID}

-----------------------------------------------------------------------------
-----------------------------------------------------------------------------
-----------------------------------------------------------------------------
(* C9: on POSIX a successfully parsed path is ABSOLUTE exactly when the    *)
(* first character of the buffer handed to the parse is "/": then the root *)
(* range is [start, start + 1) with ABSOLUTE and ROOT set; otherwise the   *)
(* root range is empty and RELATIVE is set without ROOT.                   *)
C9_PosixAbsoluteIffLeadingSlash ==
    [][(call'.fn = "linux" /\ call'.o_parts /\ NonEmptyInput) =>
          IF Byte(mem, strbuf) = Slash
          THEN /\ parts'.Root = strbuf /\ parts'.RootEnd = strbuf + 1
               /\ PATH_FLAG_ABSOLUTE \in parts'.PathFlags
               /\ PATH_FLAG_ROOT \in parts'.PathFlags
               /\ PATH_FLAG_RELATIVE \notin parts'.PathFlags
          ELSE /\ parts'.Root = parts'.RootEnd
               /\ PATH_FLAG_RELATIVE \in parts'.PathFlags
               /\ PATH_FLAG_ROOT \notin parts'.PathFlags
               /\ PATH_FLAG_ABSOLUTE \notin parts'.PathFlags]_vars

C9_PosixAbsoluteParsed ==
    /\ Parsed /\ call.fn = "linux" /\ NonEmptyInput /\ ret = 0
    /\ input[1] = Slash /\ Len(input) > 1
    /\ Flag(PATH_FLAG_ABSOLUTE) /\ Flag(PATH_FLAG_ROOT)
    /\ parts.RootEnd = parts.Root + 1

-----------------------------------------------------------------------------
\* The four ranges of the output, as <<begin, end>> pairs.
Ranges ==
    << <<parts.Root, parts.RootEnd>>, <<parts.Path, parts.PathEnd>>,
       <<parts.Filename, parts.FilenameEnd>>,
       <<parts.Extension, parts.ExtensionEnd>> >>

(* C10: for every input, each output range is well formed (its begin is    *)
(* not after its end) and no two of the four ranges overlap.               *)
C10_RangesWellFormedAndDisjoint ==
    Parsed =>
        /\ \A i \in 1..4 : Ranges[i][1] <= Ranges[i][2]
        /\ \A i \in 1..4 : \A j \in (i + 1)..4 :
              \/ Ranges[i][2] <= Ranges[j][1]
              \/ Ranges[j][2] <= Ranges[i][1]

-----------------------------------------------------------------------------
\* The last call returned success with its result in parts.
Succeeded == Parsed /\ strbuf # NULL /\ ret = 0

(* C11: for every successful parse on either entry point, the DIRECTORY    *)
(* flag is set if and only if the returned directory range is not empty.   *)
(* (Stated for the buffers whose terminator is followed by a zero byte.)   *)
C11_DirectoryFlagIffDirectoryRange ==
    (Succeeded /\ TrailingByte = NUL) =>
        (Flag(PATH_FLAG_DIRECTORY) <=> parts.Path < parts.PathEnd)

-----------------------------------------------------------------------------
(* C12: for every successful parse, FILENAME is set if and only if the     *)
(* filename range is not empty, and EXTENSION is set if and only if the    *)
(* extension range is not empty.                                           *)
C12_FileFlagsIffFileRanges ==
    Succeeded =>
        /\ Flag(PATH_FLAG_FILENAME) <=> parts.Filename < parts.FilenameEnd
        /\ Flag(PATH_FLAG_EXTENSION) <=> parts.Extension < parts.ExtensionEnd

-----------------------------------------------------------------------------
\* The last call ran the component splitter: every successful POSIX parse,
\* and the Windows parses of three characters or more that did not end at
\* the root.
SplitterRan ==
    /\ Succeeded /\ Len(input) >= 1
    /\ \/ call.fn = "linux"
       \/ Len(input) >= 3 /\ parts.RootEnd < PastTerminator

\* The filename candidate the splitter works on: the text after the last
\* separator, or after the root when no separator follows the root.
SplitCandidate ==
    IF parts.RootEnd > AddrOf(CandidateStart)
    THEN parts.RootEnd ELSE AddrOf(CandidateStart)

\* The candidate holds a dot that is not its first character.
QualifyingDot ==
    \E p \in (SplitCandidate + 1)..(Terminator - 1) : Byte(mem, p) = Dot

(* C13: the EXTENSION flag is set if and only if the filename candidate    *)
(* (the text after the last separator) contains a dot that is not its      *)
(* first character, and whenever EXTENSION is set FILENAME is set too.     *)
C13_ExtensionIffQualifyingDot ==
    /\ SplitterRan => (Flag(PATH_FLAG_EXTENSION) <=> QualifyingDot)
    /\ Succeeded => (Flag(PATH_FLAG_EXTENSION) => Flag(PATH_FLAG_FILENAME))

-----------------------------------------------------------------------------
(* The Windows root classification, stated over the buffer as it is when   *)
(* the call is made.  Characters are counted from 0, as in the             *)
(* specification.                                                          *)

\* Character i of the text in buffer m, or NUL past its end.
Char(m, i) == IF i < Len(input) THEN m[i + 1] ELSE NUL

\* The flags that classify the root.
RootFlags ==
    {PATH_FLAG_ABSOLUTE, PATH_FLAG_RELATIVE, PATH_FLAG_NETWORK,
     PATH_FLAG_DEVICE, PATH_FLAG_LONG, PATH_FLAG_ROOT}

\* The text in m has a separator at character k or later.
SeparatorFrom(m, k) == \E i \in k..(Len(input) - 1) : IsSeparator(Char(m, i))

\* The first such separator.
FirstSeparatorFrom(m, k) ==
    CHOOSE i \in k..(Len(input) - 1) :
        /\ IsSeparator(Char(m, i))
        /\ \A j \in k..(i - 1) : ~IsSeparator(Char(m, j))

\* The sub-classification of a text that begins with two backslashes:
\* where the root starts, whether its extent is fixed (two characters) or
\* found by the root-end scan, and the flags.  least is the number of
\* characters the "?\" and ".\" rules need the text to have.
DoubleSeparatorClass(m, least) ==
    IF Len(input) >= least /\ Char(m, 2) = Question /\ Char(m, 3) = Backslash
    THEN IF IsLetter(Char(m, 4)) /\ Char(m, 5) = Colon
         THEN [start |-> 4, fixed |-> TRUE,
               flags |-> {PATH_FLAG_ABSOLUTE, PATH_FLAG_LONG, PATH_FLAG_ROOT}]
         ELSE IF Char(m, 4) = Dot /\ Char(m, 5) = Backslash
         THEN [start |-> 6, fixed |-> FALSE,
               flags |-> {PATH_FLAG_ABSOLUTE, PATH_FLAG_LONG,
                          PATH_FLAG_DEVICE, PATH_FLAG_ROOT}]
         ELSE [start |-> 4, fixed |-> FALSE,
               flags |-> {PATH_FLAG_ABSOLUTE, PATH_FLAG_LONG,
                          PATH_FLAG_NETWORK, PATH_FLAG_ROOT}]
    ELSE IF Len(input) >= least /\ Char(m, 2) = Dot /\ Char(m, 3) = Backslash
    THEN [start |-> 4, fixed |-> FALSE,
          flags |-> {PATH_FLAG_ABSOLUTE, PATH_FLAG_DEVICE, PATH_FLAG_ROOT}]
    ELSE [start |-> 2, fixed |-> FALSE,
          flags |-> {PATH_FLAG_ABSOLUTE, PATH_FLAG_NETWORK, PATH_FLAG_ROOT}]

\* This step is a Windows parse of a buffer of three characters or more
\* that begins with two backslashes.
Win32DoubleSeparatorStep ==
    /\ call'.fn = "win32" /\ call'.o_parts /\ strbuf # NULL
    /\ Len(input) >= 3
    /\ Char(mem, 0) = Backslash /\ Char(mem, 1) = Backslash

\* The step leaves the root and the root flags of class c.
RootOfClass(c) ==
    /\ ret' = 0
    /\ parts'.Root = strbuf + c.start
    /\ parts'.RootEnd = IF c.fixed THEN strbuf + c.start + 2
                        ELSE strbuf + FirstSeparatorFrom(mem, c.start)
    /\ parts'.PathFlags \cap RootFlags = c.flags

-----------------------------------------------------------------------------
(* C15: a Windows input of at least 3 characters whose first two           *)
(* characters are both separators is treated as a double-separator prefix  *)
(* whether the separators are written "\" or "/": with a separator at or   *)
(* after the root start it is classified like the same text written with   *)
(* backslashes ("//server/share/file.txt" like "\\server\share\file.txt":  *)
(* ABSOLUTE|NETWORK|ROOT with root "server").                              *)
C15_EitherSeparatorStartsPrefix ==
    [][(/\ call'.fn = "win32" /\ call'.o_parts /\ strbuf # NULL
        /\ Len(input) >= 3
        /\ IsSeparator(Char(mem, 0)) /\ IsSeparator(Char(mem, 1))) =>
          LET c == DoubleSeparatorClass(mem, 5)
          IN SeparatorFrom(mem, c.start) => RootOfClass(c)]_vars

-----------------------------------------------------------------------------
\* The address the parsers take for the buffer end, in the reading of the
\* code (one past the terminator) or of the specification (the terminator).
IsBufferEnd(p) == p = Terminator \/ p = PastTerminator

(* C16: in the Windows parser, when the root-end scan of a UNC, device,    *)
(* long-UNC or long-device path reaches the end of the buffer without      *)
(* finding a separator ("\\server"), the call returns success with the     *)
(* root range [recorded root start, buffer end), the flags of that         *)
(* classification (which include ABSOLUTE and ROOT), and empty directory,  *)
(* filename and extension ranges.                                          *)
C16_RootOnlyKeepsClassification ==
    [][Win32DoubleSeparatorStep =>
          LET c == DoubleSeparatorClass(mem, 5)
          IN (~c.fixed /\ ~SeparatorFrom(mem, c.start)) =>
                /\ ret' = 0
                /\ parts'.Root = strbuf + c.start
                /\ IsBufferEnd(parts'.RootEnd)
                /\ parts'.PathFlags = c.flags
                /\ parts'.Path = parts'.PathEnd
                /\ parts'.Filename = parts'.FilenameEnd
                /\ parts'.Extension = parts'.ExtensionEnd]_vars

-----------------------------------------------------------------------------
\* This step is a Windows parse of a buffer of three characters or more
\* that does not begin with two separators.
Win32SingleStartStep ==
    /\ call'.fn = "win32" /\ call'.o_parts /\ strbuf # NULL
    /\ Len(input) >= 3
    /\ ~(IsSeparator(Char(mem, 0)) /\ IsSeparator(Char(mem, 1)))

\* The step leaves the root [strbuf, strbuf + n) with the root flags f and
\* the other six boundaries in the remainder of the buffer.
RootThenRemainder(n, f) ==
    /\ ret' = 0
    /\ parts'.Root = strbuf /\ parts'.RootEnd = strbuf + n
    /\ parts'.PathFlags \cap RootFlags = f
    /\ \A b \in {parts'.Path, parts'.PathEnd, parts'.Filename,
                 parts'.FilenameEnd, parts'.Extension, parts'.ExtensionEnd} :
          parts'.RootEnd <= b

-----------------------------------------------------------------------------
\* This step is a Windows parse of a buffer of one or two characters.
Win32ShortStep ==
    /\ call'.fn = "win32" /\ call'.o_parts /\ strbuf # NULL
    /\ Len(input) \in {1, 2}

\* The step returns success with the root [strbuf, strbuf + r), the
\* directory [strbuf, strbuf + d) (or an empty directory when d = 0),
\* exactly the flags f, and an empty filename and extension.
ShortResult(r, d, f) ==
    /\ ret' = 0
    /\ parts'.Root = strbuf /\ parts'.RootEnd = strbuf + r
    /\ IF d = 0 THEN parts'.Path = parts'.PathEnd
       ELSE parts'.Path = strbuf /\ parts'.PathEnd = strbuf + d
    /\ parts'.Filename = parts'.FilenameEnd
    /\ parts'.Extension = parts'.ExtensionEnd
    /\ parts'.PathFlags = f

(* C18: Windows inputs shorter than 3 characters return success without    *)
(* the splitter, with filename and extension empty: "<letter>:" gives the  *)
(* root of both characters, exactly ABSOLUTE|ROOT and an empty directory;  *)
(* "." and a separator give an empty root, a one-character directory and   *)
(* exactly RELATIVE|DIRECTORY; any other 2 characters give an empty root,  *)
(* a two-character directory and RELATIVE|DIRECTORY; the single character  *)
(* "/" or "\" gives an empty root, a one-character directory and           *)
(* ABSOLUTE|DIRECTORY; any other single character gives RELATIVE|DIRECTORY *)
(* with a one-character directory.                                         *)
C18_ShortInputsBypassSplitter ==
    [][Win32ShortStep =>
          IF Len(input) = 2
          THEN IF IsLetter(Char(mem, 0)) /\ Char(mem, 1) = Colon
               THEN ShortResult(2, 0, {PATH_FLAG_ABSOLUTE, PATH_FLAG_ROOT})
               ELSE IF Char(mem, 0) = Dot /\ IsSeparator(Char(mem, 1))
               THEN ShortResult(0, 1, {PATH_FLAG_RELATIVE, PATH_FLAG_DIRECTORY})
               ELSE ShortResult(0, 2, {PATH_FLAG_RELATIVE, PATH_FLAG_DIRECTORY})
          ELSE IF IsSeparator(Char(mem, 0))
               THEN ShortResult(0, 1, {PATH_FLAG_ABSOLUTE, PATH_FLAG_DIRECTORY})
               ELSE ShortResult(0, 1, {PATH_FLAG_RELATIVE, PATH_FLAG_DIRECTORY})]_vars

C18_DotSeparatorParsed ==
    /\ Succeeded /\ call.fn = "win32" /\ Len(input) = 2
    /\ input[1] = Dot /\ IsSeparator(input[2]) /\ TrailingByte = Dot
    /\ parts.Path = BufAddr /\ parts.PathEnd = BufAddr + 1
    /\ parts.PathFlags = {PATH_FLAG_RELATIVE, PATH_FLAG_DIRECTORY}

-----------------------------------------------------------------------------
(* The long form "\\?\X:R" of a drive path "X:R".                          *)

\* The buffer m holds a text that begins with "\\?\", a letter and ":".
HoldsLongDrivePath(m) ==
    /\ Len(input) >= 6
    /\ Char(m, 0) = Backslash /\ Char(m, 1) = Backslash
    /\ Char(m, 2) = Question /\ Char(m, 3) = Backslash
    /\ IsLetter(Char(m, 4)) /\ Char(m, 5) = Colon

\* The result of Win32PathStringParse on a buffer of its own that holds the
\* text of m without its first four characters: "X:R" for "\\?\X:R".
ParseOfShortForm(m) ==
    Win32PathStringParse(TRUE, FALSE, << >>, BufAddr,
        [mem   |-> SubSeq(m, 5, Len(m)),
         parts |-> ZeroParts,
         info  |-> ZeroInfo,
         errno |-> 0])

\* The characters of m in [a, b) that precede the terminator at address t.
Chars(m, a, b, t) == Text(m, a, IF b > t THEN t ELSE b)

(* C19: for every drive letter X and every remainder R, the Windows parse  *)
(* of "\\?\X:" followed by R yields the root text "X:", the same           *)
(* directory, filename and extension text as the parse of "X:" followed by *)
(* R, and the same flags with LONG set in addition.                        *)
C19_LongDriveLikeDrive ==
    [][(/\ call'.fn = "win32" /\ call'.o_parts /\ strbuf # NULL
        /\ HoldsLongDrivePath(mem)) =>
          LET short == ParseOfShortForm(mem)
              t     == Terminator
              u     == Terminator - 4
          IN /\ ret' = 0 /\ short.ret = 0
             /\ Text(mem', parts'.Root, parts'.RootEnd)
                   = <<Char(mem, 4), Colon>>
             /\ Chars(mem', parts'.Path, parts'.PathEnd, t)
                   = Chars(short.mem, short.parts.Path, short.parts.PathEnd, u)
             /\ Chars(mem', parts'.Filename, parts'.FilenameEnd, t)
                   = Chars(short.mem, short.parts.Filename,
                           short.parts.FilenameEnd, u)
             /\ Chars(mem', parts'.Extension, parts'.ExtensionEnd, t)
                   = Chars(short.mem, short.parts.Extension,
                           short.parts.ExtensionEnd, u)
             /\ parts'.PathFlags = short.parts.PathFlags \cup {PATH_FLAG_LONG}]_vars

-----------------------------------------------------------------------------
(* What a parse may do to the buffer.                                      *)

\* The separator the entry point fn rewrites, and the one it writes.
NonCanonicalOf(fn) == IF fn = "linux" THEN Backslash ELSE Slash
CanonicalOf(fn) == IF fn = "linux" THEN Slash ELSE Backslash

(* C20: a parse never changes the length of the buffer and never changes   *)
(* any character other than a non-canonical separator ('\' for the POSIX   *)
(* entry point, '/' for the Windows one), which it may only replace by the *)
(* canonical separator; on either error outcome the buffer is unchanged.   *)
C20_OnlySeparatorsRewritten ==
    [][call'.fn # "none" =>
          /\ Len(mem') = Len(mem)
          /\ \A i \in 1..Len(mem) :
                mem'[i] # mem[i] =>
                    /\ mem[i] = NonCanonicalOf(call'.fn)
                    /\ mem'[i] = CanonicalOf(call'.fn)
          /\ ret' # 0 => mem' = mem]_vars

\* A successful Windows parse has rewritten a '/' of the input.
C20_SeparatorRewritten ==
    /\ call.fn = "win32" /\ ret = 0
    /\ \E i \in 1..Len(input) : input[i] = Slash /\ mem[i] = Backslash

-----------------------------------------------------------------------------
(* Separators left in the buffer.                                          *)

\* The positions of the input that hold the separator the last entry point
\* called rewrites.
NonCanonicalLeft ==
    {i \in 1..Len(input) : mem[i] = NonCanonicalOf(call.fn)}

(* C21: after a successful parse the buffer contains no non-canonical      *)
(* separator: no '\' remains after LinuxPathStringParse and no '/' remains *)
(* after Win32PathStringParse, for inputs of 1, 2 and 3 or more            *)
(* characters.                                                             *)
C21_NoNonCanonicalSeparatorLeft ==
    (Succeeded /\ Len(input) >= 1) => NonCanonicalLeft = {}

-----------------------------------------------------------------------------
(* The work of the scans.  A loop visits a position when its body runs     *)
(* with the cursor at that position.                                       *)

\* A call of either entry point that got as far as reading the buffer.
ScannedCall == call.fn # "none" /\ call.o_parts /\ strbuf # NULL

Increasing(t) == \A i \in 1..(Len(t) - 1) : t[i] < t[i + 1]
Decreasing(t) == \A i \in 1..(Len(t) - 1) : t[i] > t[i + 1]

\* Every position visited lies in the buffer as the descriptor bounds it.
WithinBuffer(t) == \A i \in 1..Len(t) : t[i] >= BufAddr /\ t[i] <= PastTerminator

-----------------------------------------------------------------------------
(* Buffers that hold an invalid codepoint (SpecInvalid).                   *)

(* C23: when the codepoint cursor reports an invalid codepoint during the  *)
(* root-end scan, the forward segmentation pass or the backward extension  *)
(* scan, that scan halts as if the end of the scannable region had been    *)
(* reached and the parse still returns success; the invalid cursor value   *)
(* is never dereferenced.                                                  *)
C23_InvalidCodepointHaltsScan ==
    (ScannedCall /\ InvalidByte \in {input[i] : i \in 1..Len(input)}) =>
        ~crashed /\ ret = 0

-----------------------------------------------------------------------------
(* The descriptor the entry points compute.                                *)

\* Address t lies in the range [a, b).
Holds(a, b, t) == a <= t /\ t < b

(* C24: when a parse entry point computes the string descriptor itself (no *)
(* hint supplied), the buffer end it scans to is the position of the       *)
(* terminator: BufferEnd - Buffer equals the number of content storage     *)
(* units, no returned range extends past the terminator, and the           *)
(* terminator is never part of the directory, filename or extension text.  *)
C24_BufferEndIsTerminator ==
    [][(/\ call'.fn # "none" /\ call'.o_parts /\ call'.o_strinfo
        /\ strbuf # NULL /\ ~HintUsable) =>
          /\ info'.BufferEnd - info'.Buffer = Len(input)
          /\ parts'.RootEnd <= Terminator
          /\ parts'.PathEnd <= Terminator
          /\ parts'.FilenameEnd <= Terminator
          /\ parts'.ExtensionEnd <= Terminator
          /\ ~Holds(parts'.Path, parts'.PathEnd, Terminator)
          /\ ~Holds(parts'.Filename, parts'.FilenameEnd, Terminator)
          /\ ~Holds(parts'.Extension, parts'.ExtensionEnd, Terminator)]_vars

-----------------------------------------------------------------------------
(* The splitter's result when it finds no split.                           *)

\* The splitter ran on a candidate that is not empty and holds no dot
\* other than possibly its first character.
CandidateWithoutSplit ==
    SplitterRan /\ SplitCandidate < Terminator /\ ~QualifyingDot

(* C25: in the component splitter, when the text after the last separator  *)
(* is non-empty and contains no dot other than possibly its first          *)
(* character, FILENAME is not set, the directory range is extended to end  *)
(* at the buffer end so that it covers that text, DIRECTORY is set, and    *)
(* the filename and extension ranges are both empty at the buffer end     *)
(* (BufferEnd of the descriptor).                                          *)
C25_NoSplitExtendsDirectory ==
    CandidateWithoutSplit =>
        /\ ~Flag(PATH_FLAG_FILENAME)
        /\ Flag(PATH_FLAG_DIRECTORY)
        /\ parts.Path <= SplitCandidate /\ parts.PathEnd = PastTerminator
        /\ parts.Filename = PastTerminator /\ parts.FilenameEnd = PastTerminator
        /\ parts.Extension = PastTerminator /\ parts.ExtensionEnd = PastTerminator

-----------------------------------------------------------------------------
(* What the directory range holds.                                         *)

\* The directory text: the characters of the directory range, the
\* terminator left out.
DirectoryText == Chars(mem, parts.Path, parts.PathEnd, Terminator)

(* C26: for every successful parse, the directory range contains neither   *)
(* the root nor the separator that follows the root, and its text never    *)
(* ends with a separator character, so that for a path of the form root,  *)
(* separator, d1 sep ... sep dn, separator, name.ext the directory text    *)
(* is d1 sep ... sep dn.  (Stated for the buffers whose terminator is      *)
(* followed by a zero byte.)                                               *)
C26_DirectoryExcludesRootAndSeparators ==
    (Succeeded /\ Len(input) >= 1 /\ TrailingByte = NUL) =>
        /\ parts.Path < parts.PathEnd => parts.RootEnd <= parts.Path
        /\ (parts.Root < parts.RootEnd /\ IsSeparator(Byte(mem, parts.RootEnd))) =>
               ~Holds(parts.Path, parts.PathEnd, parts.RootEnd)
        /\ DirectoryText # << >> =>
               ~IsSeparator(DirectoryText[Len(DirectoryText)])

-----------------------------------------------------------------------------
(* The order of the eight boundaries.                                      *)

\* The boundaries in the order of the PATH_PARTS fields.
Boundaries ==
    <<parts.Root, parts.RootEnd, parts.Path, parts.PathEnd,
      parts.Filename, parts.FilenameEnd, parts.Extension, parts.ExtensionEnd>>

\* The buffer start and the buffer end of the descriptor of the buffer the
\* caller passed: both NULL for a NULL buffer.
PassedBufferStart == IF strbuf = NULL THEN NULL ELSE BufAddr
PassedBufferEnd == IF strbuf = NULL THEN NULL ELSE PastTerminator

(* C27: for every parse on either entry point with a non-null output, all  *)
(* eight boundaries lie within [buffer start, buffer end] and are totally  *)
(* ordered: root <= rootEnd <= directory <= directoryEnd <= filename <=    *)
(* filenameEnd <= extension <= extensionEnd.                               *)
C27_BoundariesOrderedWithinBuffer ==
    Parsed =>
        /\ \A i \in 1..8 : PassedBufferStart <= Boundaries[i]
                          /\ Boundaries[i] <= PassedBufferEnd
        /\ \A i \in 1..7 : Boundaries[i] <= Boundaries[i + 1]

-----------------------------------------------------------------------------
(* C28: for every successful parse on either entry point, the ROOT flag is *)
(* set if and only if the returned root range is non-empty.                *)
C28_RootFlagIffRootRange ==
    Succeeded => (Flag(PATH_FLAG_ROOT) <=> parts.Root < parts.RootEnd)

-----------------------------------------------------------------------------
(* The byte order markers (SpecBom).                                       *)

(* C29: for each encoding e in {UTF8, UTF16_MSB, UTF16_LSB, UTF32_MSB,      *)
(* UTF32_LSB}, applying EncodingForByteOrderMarker to the marker written   *)
(* by ByteOrderMarkerForEncoding(e) returns e and reports the byte count   *)
(* that ByteOrderMarkerForEncoding returned, and                           *)
(* ByteOrderMarkerForEncoding writes only indices 0..3 of the marker       *)
(* array.                                                                  *)
C29_MarkerRoundTrip ==
    [][/\ (bompc = "written" /\ bompc' = "decoded") =>
              (encoding' = text_encoding /\ bytecount' = bom_size)
       /\ bompc' = "written" => At(marker', 4) = At(marker, 4)]_vars

-----------------------------------------------------------------------------
(* Base64Encode (SpecBase64).                                              *)

(* C30: for every num_src >= 1, when Base64Encode succeeds with a          *)
(* destination of capacity max_dst, the number of bytes it writes          *)
(* (reported in o_numdst, the terminating nul included) equals the         *)
(* required size returned by the size query (dst NULL, max_dst 0) for the  *)
(* same num_src, and so never exceeds max_dst.                             *)
C30_EncodeWritesRequiredSize ==
    (b64pc = "encoded" /\ num_src >= 1 /\ b64ret = 0) =>
        /\ numdst = required
        /\ numdst <= max_dst
        /\ \A o \in dstwritten : o < max_dst

====
